---- MODULE Spec2Model ----
(***************************************************************************)
(* Model of the legal RAG backend: the vector index managers, the          *)
(* ingestion functions, the conversation store and the chunker.            *)
(*                                                                         *)
(* Modelling conventions.  Library objects are modelled by the data flow   *)
(* the code writes down: a document is a record with page_content and      *)
(* metadata, a metadata dict is a function from its keys to values, a      *)
(* Mongo collection is a sequence of stored documents in insertion order,  *)
(* and a guard such as `if not db` means "the handle was not initialised". *)
(***************************************************************************)
EXTENDS Integers, Sequences, FiniteSets, TLC

VARIABLES
  db,                 \* VectorDBManager.db: the indexed chunks, in insertion order
  results,            \* the value search_documents returned last
  search_req,         \* the arguments of that call
  chroma_collection,  \* chroma_manager's collection: the indexed chunks
  chroma_vector_db,   \* main.chroma_vector_db: the client init_chroma_db returned, or None
  llm_model,          \* generation.llm_model: the model client, or None without an API key
  rag,                \* the last get_rag_response call: caller, retrieved documents, outcome
  last_ingest,        \* the last ingestion call: caller, filename, metadata, and where its chunks went
  mongo_db,           \* mongo_manager.db: the database handle, or None when init_mongo_db failed
  conversations,      \* db.conversations: the stored messages, in insertion order
  loaded,             \* the last load_conversation call and the value it returned
  sessions_summary,   \* the last get_all_sessions_summary_mongo call and the value it returned
  high_water,         \* per session: the highest message_index ever assigned, -1 before the first
  appended,           \* per session: the messages appended since the session was last empty
  pending,            \* per request: the save_message call in progress (between its two store operations)
  fs,                 \* the file system: per temporary path, the file there or NoFile
  calls,              \* per ingestion call: the function, its arguments, its position and its outcome
  text,               \* process_file: the text extracted from the file
  processed_chunks,   \* process_file: the chunks it built
  chunker_pc,         \* process_file: "extracted" before the chunking, "done" after
  document_content,   \* the last process_document_content call: its pages, its fault, what it returned
  route               \* the /ask_legal_question request in progress: its arguments, position and response

search_vars == <<db, results, search_req>>
rag_vars == <<chroma_collection, chroma_vector_db, llm_model, rag>>
store_vars == <<mongo_db, conversations, loaded, sessions_summary, high_water, appended, pending>>
temp_vars == <<fs, calls>>
chunk_vars == <<text, processed_chunks, chunker_pc, document_content>>
vars == <<search_vars, rag_vars, last_ingest, store_vars, temp_vars, chunk_vars, route>>

----------------------------------------------------------------------------
(* Bounds and input sets *)

MaxIndexed == 3      \* chunks one index holds in the model
MaxK == 2            \* largest k a search is called with
MaxIngested == 2     \* chunks indexed in the ingestion specification
MaxRetrieved == 2    \* chunks the collection holds in the answering specification

Tenants == {"tenant-x", "tenant-y"}
Filenames == {"a.txt", "b.txt"}
Contents == {"c1", "c2"}
Queries == {"contract clause"}
Times == {"t1"}
None == "None"

\* dict.update(over) on base: keys of `over` win
Update(base, over) ==
  [key \in DOMAIN base \cup DOMAIN over |->
     IF key \in DOMAIN over THEN over[key] ELSE base[key]]

EmptyDict == [key \in {} |-> None]

\* {key: value}
Dict1(key, value) == [x \in {key} |-> value]

\* the metadata maps a caller can supply: any of client_id, original_filename, category
CallerMetadata ==
  UNION { UNION { { Update(Update(c, f), g) :
                      g \in {EmptyDict, Dict1("category", "law")} } :
                  f \in {EmptyDict} \cup {Dict1("original_filename", n) : n \in Filenames} } :
          c \in {EmptyDict} \cup {Dict1("client_id", t) : t \in Tenants} }

\* non-empty sequences without repetition over S, of length n
RECURSIVE Arrangements(_, _)
Arrangements(S, n) ==
  IF n = 0 THEN {<<>>}
  ELSE UNION { { <<x>> \o rest : rest \in Arrangements(S \ {x}, n - 1) } : x \in S }

Min(a, b) == IF a < b THEN a ELSE b

----------------------------------------------------------------------------
(* src/document_processor.py: documents built by process_file *)

\* documents = [LangchainDocument(page_content=chunk, metadata=metadata) ...]
process_file_documents(chunks, metadata) ==
  [i \in 1..Len(chunks) |->
     [page_content |-> chunks[i], metadata |-> metadata]]

----------------------------------------------------------------------------
(* src/vector_db_manager.py *)

\* doc['metadata']['client_id'] = client_id
set_client_id(doc, client_id) ==
  [doc EXCEPT !.metadata = Update(doc.metadata, Dict1("client_id", client_id))]

\* add_documents(documents, client_id): tag every document, then add them all
add_documents(documents, client_id) ==
  /\ db' = IF documents = <<>>
           THEN db
           ELSE db \o [i \in 1..Len(documents) |-> set_client_id(documents[i], client_id)]
  /\ UNCHANGED <<results, search_req>>

NoFilter == [key |-> None, eq |-> None]

\* a search that passes no filter to the vector store
filter_dict_missing(client_id) == NoFilter

\* filter_dict = {"client_id": {"$eq": client_id}}
filter_dict(client_id) == [key |-> "client_id", eq |-> client_id]

\* Chroma's where-clause: a chunk matches {"key": {"$eq": v}} iff it has the key with that value
Matches(chunk, filter) ==
  \/ filter = NoFilter
  \/ /\ filter.key \in DOMAIN chunk.metadata
     /\ chunk.metadata[filter.key] = filter.eq

\* Chroma.similarity_search(query, k, filter): the k most similar chunks among those
\* the filter admits.  Similarity is the embedding model's, so every choice and
\* order of min(k, #admitted) distinct admitted chunks is a possible answer.
similarity_search(index, query, k, filter) ==
  LET admitted == {i \in 1..Len(index) : Matches(index[i], filter)}
      n == Min(k, Cardinality(admitted))
  IN { [j \in 1..n |-> index[order[j]]] : order \in Arrangements(admitted, n) }

\* search_documents(query, client_id, k)
search_documents(query, client_id, k) ==
  /\ \E found \in similarity_search(db, query, k, filter_dict(client_id)) :
       results' = IF found = <<>> THEN <<>> ELSE found
  /\ search_req' = [client_id |-> client_id, k |-> k, query |-> query]
  /\ UNCHANGED db


----------------------------------------------------------------------------
(* src/src/ingestion/document_processor.py: the documents of process_document_content *)

\* temp_filepath = f"/tmp/{filename}"
temp_filepath(filename) == <<"/tmp/", filename>>

\* loader.load(): one document per page, each tagged by the loader with its source path
loader_load(pages, filename) ==
  [i \in 1..Len(pages) |->
     [page_content |-> pages[i], metadata |-> Dict1("source", temp_filepath(filename))]]

\* doc.metadata.update(metadata); doc.metadata["original_filename"] = filename;
\* doc.metadata["timestamp"] = datetime.now().isoformat()
tag_document(doc, metadata, filename, now) ==
  [doc EXCEPT !.metadata =
     Update(Update(Update(doc.metadata, metadata), Dict1("original_filename", filename)),
            Dict1("timestamp", now))]

\* text_splitter.split_documents(documents), chunk_size=1000: a page no longer than the
\* chunk size (every page of the model) is one chunk carrying the page's metadata, and
\* a page without text gives no chunk
split_documents(documents) == SelectSeq(documents, LAMBDA doc : doc.page_content # "")

\* the chunks process_document_content returns when the loader succeeds
process_document_content(pages, filename, metadata, now) ==
  split_documents([i \in 1..Len(pages) |->
                     tag_document(loader_load(pages, filename)[i], metadata, filename, now)])

NoContent == [called |-> FALSE, pages |-> <<>>, failed |-> FALSE, chunks |-> <<>>,
              raised |-> FALSE]

\* process_document_content(file_stream, filename, metadata) as one call. `raises`: a
\* step inside the try raises (the write, the loader, the splitter); the handler logs
\* it and returns [].
process_document_content_call(pages, filename, metadata, now, raises) ==
  document_content' =
    [called |-> TRUE, pages |-> pages, failed |-> raises,
     chunks |-> IF raises THEN <<>>
                ELSE process_document_content(pages, filename, metadata, now),
     raised |-> FALSE]

----------------------------------------------------------------------------
(* src/src/db/chroma_manager.py *)

\* add_documents_to_chroma(documents, metadata, chroma_db_client): `metadata` is not used.
\* Nothing is added without a client, or when the vector store raises.
add_documents_to_chroma(documents, metadata, chroma_db_client, raises) ==
  /\ chroma_collection' =
       IF chroma_db_client = None \/ raises THEN chroma_collection
       ELSE chroma_collection \o documents
  /\ UNCHANGED <<chroma_vector_db, llm_model, rag>>

\* the value None where a retriever is expected
NoRetriever == [k |-> 0, filter |-> NoFilter]

\* search_kwargs={"k": 5}
RetrieverK == 5

\* get_retriever(chroma_db_client): vectorstore.as_retriever(search_kwargs={"k": 5})
get_retriever(chroma_db_client) ==
  IF chroma_db_client = None THEN NoRetriever
  ELSE [k |-> RetrieverK, filter |-> NoFilter]

\* retriever.invoke(query): the possible answers of the vector store
retriever_invoke(retriever, query) ==
  similarity_search(chroma_collection, query, retriever.k, retriever.filter)


----------------------------------------------------------------------------
(* src/src/rag/generation.py *)

\* len(doc.page_content) of the model's chunk texts
ContentLength(content) == CASE content = "c1" -> 200 [] content = "c2" -> 201

SnippetChars == 200

\* the three fixed replies and the title placeholder (Russian texts in the source)
MsgUnavailable == "AI service unavailable, check the API key configuration"
MsgBlocked == "sorry, your request was blocked by the safety system, please rephrase"
MsgError == "sorry, an error occurred while getting the answer, try later"
UnknownSource == "unknown source"
LLMAnswers == {"llm answer"}

\* a snippet that marks a content of exactly 200 characters as cut
snippet_of_cut(doc) ==
  [text |-> doc.page_content,
   chars |-> Min(ContentLength(doc.page_content), SnippetChars),
   ellipsis |-> ContentLength(doc.page_content) >= SnippetChars]

\* doc.page_content[:200] + "..." if len(doc.page_content) > 200 else doc.page_content
snippet_of(doc) ==
  [text |-> doc.page_content,
   chars |-> Min(ContentLength(doc.page_content), SnippetChars),
   ellipsis |-> ContentLength(doc.page_content) > SnippetChars]

\* doc.metadata.get("original_filename", <placeholder>)
source_title(doc) ==
  IF "original_filename" \in DOMAIN doc.metadata
  THEN doc.metadata["original_filename"] ELSE UnknownSource

\* extracted_sources: one {title, snippet} per retrieved document, in order
extract_sources(relevant_docs) ==
  [i \in 1..Len(relevant_docs) |->
     [title |-> source_title(relevant_docs[i]), snippet |-> snippet_of(relevant_docs[i])]]

\* _format_docs(docs): "" for no documents, else one marked block per document
format_docs(docs) == [i \in 1..Len(docs) |-> docs[i].page_content]

\* full_prompt: the context prompt when the context is non-empty, else the fallback prompt
full_prompt(context, question) ==
  IF context # <<>>
  THEN [kind |-> "context", context |-> context, question |-> question]
  ELSE [kind |-> "fallback", context |-> <<>>, question |-> question]

NoPrompt == [kind |-> "none", context |-> <<>>, question |-> None]

NoRag == [caller |-> None, question |-> None, relevant_docs |-> <<>>, prompt |-> NoPrompt,
          answer |-> None, sources |-> <<>>, outcome |-> "none", fault |-> "none"]

\* str(e): the text of an exception raised by the retriever or by the model client
ErrorText == "str(e)"

\* what goes wrong in a call, from its inputs: the model client or the retriever is
\* missing, retriever.invoke raises, or the model call is blocked or raises
fault_of(retriever, retrieval_raises, llm) ==
  IF llm_model = None THEN "no model"
  ELSE IF retriever = NoRetriever THEN "no retriever"
  ELSE IF retrieval_raises THEN "retrieval raises"
  ELSE IF llm = "ok" THEN "none" ELSE llm

\* a get_rag_response whose generic handler answers with the exception's text and
\* the sources found so far
get_rag_response_leaky(caller, question, retriever, retrieval_raises, llm) ==
  /\ \E relevant_docs \in IF llm_model = None \/ retriever = NoRetriever \/ retrieval_raises
                          THEN {<<>>} ELSE retriever_invoke(retriever, question) :
       rag' = [NoRag EXCEPT !.caller = caller, !.question = question,
                            !.fault = fault_of(retriever, retrieval_raises, llm),
                            !.relevant_docs = relevant_docs,
                            !.answer = IF fault_of(retriever, retrieval_raises, llm) = "none"
                                       THEN "llm answer" ELSE ErrorText,
                            !.sources = extract_sources(relevant_docs),
                            !.outcome = IF fault_of(retriever, retrieval_raises, llm) = "none"
                                        THEN "ok" ELSE "error"]
  /\ UNCHANGED <<chroma_collection, chroma_vector_db, llm_model>>

\* get_rag_response(question, chat_history, retriever), called for `caller`.
\* retrieval_raises: retriever.invoke raises; llm: what the model call does.
get_rag_response(caller, question, retriever, retrieval_raises, llm) ==
  /\ LET call == [NoRag EXCEPT !.caller = caller, !.question = question,
                               !.fault = fault_of(retriever, retrieval_raises, llm)]
     IN IF llm_model = None
        THEN rag' = [call EXCEPT !.answer = MsgUnavailable, !.outcome = "unavailable"]
        ELSE IF retriever = NoRetriever \/ retrieval_raises
        THEN rag' = [call EXCEPT !.answer = MsgError, !.outcome = "error"]
        ELSE \E relevant_docs \in retriever_invoke(retriever, question) :
               LET prompt == full_prompt(format_docs(relevant_docs), question)
                   base == [call EXCEPT !.relevant_docs = relevant_docs, !.prompt = prompt]
               IN CASE llm = "ok" ->
                         \E answer \in LLMAnswers :
                           rag' = [base EXCEPT !.answer = answer, !.outcome = "ok",
                                               !.sources = extract_sources(relevant_docs)]
                    [] llm = "blocked" ->
                         rag' = [base EXCEPT !.answer = MsgBlocked, !.outcome = "blocked"]
                    [] OTHER ->
                         rag' = [base EXCEPT !.answer = MsgError, !.outcome = "error"]
  /\ UNCHANGED <<chroma_collection, chroma_vector_db, llm_model>>

LLMOutcomes == {"ok", "blocked", "raises"}

----------------------------------------------------------------------------
(* src/src/db/mongo_manager.py *)

MaxMessages == 2     \* messages the collection holds in the model

Sessions == {"s1", "s2"}
Roles == {"user", "ai"}
MessageTexts == {"m0", "m1"}
Requests == {"r1", "r2"}

\* the positions in db.conversations of the messages of a session
SessionMessages(session_id) ==
  {i \in 1..Len(conversations) : conversations[i].session_id = session_id}

Max(a, b) == IF a > b THEN a ELSE b

\* a save_message that reuses the index of the last message (the + 1 forgotten)
next_message_index_same(session_id) == 0

\* message_index = last_message["message_index"] + 1 if last_message else 0, where
\* last_message = find_one({"session_id": session_id}, sort=[("message_index", -1)])
next_message_index(session_id) ==
  IF SessionMessages(session_id) = {} THEN 0
  ELSE 1 + CHOOSE m \in {conversations[i].message_index : i \in SessionMessages(session_id)} :
             \A i \in SessionMessages(session_id) : conversations[i].message_index <= m

\* the document save_message inserts (its timestamp is left out: nothing reads it)
new_message(session_id, role, content, message_index) ==
  [session_id |-> session_id, role |-> role, parts |-> <<content>>,
   message_index |-> message_index]

\* db.conversations.insert_one(message), and the record of what was assigned
insert_one(message) ==
  /\ conversations' = Append(conversations, message)
  /\ high_water' = [high_water EXCEPT ![message.session_id] =
                      Max(@, message.message_index)]
  /\ appended' = [appended EXCEPT ![message.session_id] =
                    Append(@, [role |-> message.role, content |-> message.parts[1]])]

\* save_message(session_id, role, content) as one step. Without a database handle, or
\* when a store operation raises, the error is logged and nothing is stored.
save_message(session_id, role, content, raises) ==
  /\ IF mongo_db = None \/ raises
     THEN UNCHANGED <<conversations, high_water, appended>>
     ELSE insert_one(new_message(session_id, role, content, next_message_index(session_id)))
  /\ UNCHANGED <<mongo_db, loaded, sessions_summary, pending>>

\* find({"session_id": session_id}).sort("message_index", 1): every order of the
\* session's messages with non-decreasing message_index (ties in the store's order)
find_sorted(session_id) ==
  LET found == SessionMessages(session_id)
  IN { [j \in 1..Cardinality(found) |-> conversations[order[j]]] :
         order \in { o \in Arrangements(found, Cardinality(found)) :
                       \A j \in 1..(Cardinality(found) - 1) :
                         conversations[o[j]].message_index
                           <= conversations[o[j + 1]].message_index } }

\* formatted_history: {"role": entry.get('role'), "content": parts[0] or ''}
formatted_history(messages) ==
  [j \in 1..Len(messages) |->
     [role |-> messages[j].role,
      content |-> IF messages[j].parts # <<>> THEN messages[j].parts[1] ELSE ""]]

\* load_conversation(session_id): [] without a handle or when the query raises
load_conversation(session_id, raises) ==
  /\ IF mongo_db = None \/ raises
     THEN loaded' = [session_id |-> session_id, history |-> <<>>, failed |-> TRUE]
     ELSE \E messages \in find_sorted(session_id) :
            loaded' = [session_id |-> session_id, history |-> formatted_history(messages),
                       failed |-> FALSE]
  /\ UNCHANGED <<mongo_db, conversations, sessions_summary, high_water, appended, pending>>

\* a delete that ignores its filter and empties the collection
delete_many_all(session_id) == <<>>

\* the messages delete_many({"session_id": session_id}) leaves
delete_many(session_id) ==
  LET kept == {i \in 1..Len(conversations) : conversations[i].session_id # session_id}
      position(n) == CHOOSE i \in kept : Cardinality({j \in kept : j <= i}) = n
  IN [n \in 1..Cardinality(kept) |-> conversations[position(n)]]

\* delete_conversation(session_id)
delete_conversation(session_id, raises) ==
  /\ IF mongo_db = None \/ raises
     THEN UNCHANGED <<conversations, appended>>
     ELSE /\ conversations' = delete_many(session_id)
          /\ appended' = [appended EXCEPT ![session_id] = <<>>]
  /\ UNCHANGED <<mongo_db, loaded, sessions_summary, high_water, pending>>

\* {"$substrCP": [content, 0, 50]} and the "..." added when $strLenCP is above 50
TitleChars == 50

\* $strLenCP of the model's message texts: "m0" stands for a text of 50 characters,
\* "m1" for one of 51; the other texts of the model are short
MessageLength(content) ==
  CASE content = "m0" -> TitleChars
    [] content = "m1" -> TitleChars + 1
    [] OTHER -> 1

NewChat == "new chat"
Null == [text |-> "null", chars |-> 0, ellipsis |-> FALSE]

\* $concat of the first 50 characters and "..." if the content is longer
title_of(content) ==
  [text |-> content,
   chars |-> Min(MessageLength(content), TitleChars),
   ellipsis |-> MessageLength(content) > TitleChars]

\* the $group stage's $first: the expression evaluated on the first document of the
\* group in the collection's order; $$REMOVE leaves the field missing there, for which
\* $first gives null
first_user_message_content(session_id) ==
  LET first == conversations[CHOOSE i \in SessionMessages(session_id) :
                               \A j \in SessionMessages(session_id) : i <= j]
  IN IF first.role = "user" THEN title_of(first.parts[1]) ELSE Null

\* the $project stage: the cut title, or the placeholder for null
project(session_id) ==
  [id |-> session_id,
   title |-> IF first_user_message_content(session_id) # Null
             THEN first_user_message_content(session_id)
             ELSE [text |-> NewChat, chars |-> 0, ellipsis |-> FALSE]]

\* {"$sort": {"id": 1}}
SessionOrder == <<"s1", "s2">>

\* db.conversations.aggregate(pipeline): one group per session_id that has documents.
\* The $match on $exists keeps every group, since a null field exists.
aggregate ==
  LET grouped == SelectSeq(SessionOrder, LAMBDA s : SessionMessages(s) # {})
  IN [n \in 1..Len(grouped) |-> project(grouped[n])]

NoSummary == [result |-> <<>>, failed |-> FALSE, called |-> FALSE]

\* get_all_sessions_summary_mongo(): [] without a handle or when the query raises
get_all_sessions_summary_mongo(raises) ==
  /\ sessions_summary' =
       IF mongo_db = None \/ raises
       THEN [result |-> <<>>, failed |-> TRUE, called |-> TRUE]
       ELSE [result |-> aggregate, failed |-> FALSE, called |-> TRUE]
  /\ UNCHANGED <<mongo_db, conversations, loaded, high_water, appended, pending>>

NoLoad == [session_id |-> None, history |-> <<>>, failed |-> FALSE]
NoSave == [pc |-> "idle", session_id |-> None, role |-> None, content |-> None,
           message_index |-> 0]

StoreIdle ==
  /\ mongo_db = None /\ conversations = <<>> /\ loaded = NoLoad
  /\ sessions_summary = NoSummary
  /\ high_water = [s \in Sessions |-> -1]
  /\ appended = [s \in Sessions |-> <<>>]
  /\ pending = [r \in Requests |-> NoSave]

----------------------------------------------------------------------------
(* The temporary file of process_uploaded_file (src/document_processor.py) and of
   process_document_content (src/src/ingestion/document_processor.py), step by step *)

Calls == {"u1", "u2"}
Functions == {"process_uploaded_file", "process_document_content"}

\* temp_path = f"./temp_{filename}"
temp_path(filename) == <<"./temp_", filename>>

\* the temporary path a call uses: a function of the filename alone
path_of(function, filename) ==
  IF function = "process_uploaded_file" THEN temp_path(filename) ELSE temp_filepath(filename)

Paths == {path_of(f, n) : f \in Functions, n \in Filenames}

NoFile == [creator |-> None, data |-> None]
NoCall == [pc |-> "idle", function |-> None, filename |-> None, handle |-> FALSE,
           extracted |-> None, outcome |-> "none"]

\* file_stream.getvalue(): the bytes the call was given, different for each call
bytes_of(c) == c

PathOf(c) == path_of(calls[c].function, calls[c].filename)

\* where a call goes when a step inside its try block raises: process_uploaded_file
\* propagates through its finally; process_document_content logs, returns [] and
\* runs its finally
after_exception(c, outcome) ==
  [calls[c] EXCEPT !.pc = "finally",
                   !.outcome = IF calls[c].function = "process_uploaded_file"
                               THEN outcome ELSE "returned []"]

\* open(temp_path, "wb"): creates the file, or truncates the one already there.
\* In process_uploaded_file the with-block is before the try, so a fault leaves at once.
open_temp_file(c, function, filename, raises) ==
  LET path == path_of(function, filename)
      call == [NoCall EXCEPT !.function = function, !.filename = filename]
  IN /\ calls[c].pc = "idle"
     /\ IF raises
        THEN /\ calls' = [calls EXCEPT ![c] =
                            IF function = "process_uploaded_file"
                            THEN [call EXCEPT !.pc = "done", !.outcome = "raised"]
                            ELSE [call EXCEPT !.pc = "finally", !.outcome = "returned []"]]
             /\ UNCHANGED fs
        ELSE /\ calls' = [calls EXCEPT ![c] = [call EXCEPT !.pc = "opened", !.handle = TRUE]]
             /\ fs' = [fs EXCEPT ![path] =
                         [creator |-> IF fs[path] = NoFile THEN c ELSE fs[path].creator,
                          data |-> "empty"]]

\* temp_file.write(...): into the file the handle refers to (a file removed meanwhile
\* is written, but no longer at the path)
write_temp_file(c, raises) ==
  /\ calls[c].pc = "opened"
  /\ IF raises
     THEN /\ calls' = [calls EXCEPT ![c] =
                         IF calls[c].function = "process_uploaded_file"
                         THEN [calls[c] EXCEPT !.pc = "done", !.outcome = "raised"]
                         ELSE [calls[c] EXCEPT !.pc = "finally", !.outcome = "returned []"]]
          /\ UNCHANGED fs
     ELSE /\ calls' = [calls EXCEPT ![c].pc = "written"]
          /\ fs' = IF calls[c].handle /\ fs[PathOf(c)] # NoFile
                   THEN [fs EXCEPT ![PathOf(c)].data = bytes_of(c)]
                   ELSE fs

\* process_file(temp_path, ...) / loader.load(): reads whatever is at the path
extract_text(c, raises) ==
  /\ calls[c].pc = "written"
  /\ calls' = [calls EXCEPT ![c] =
                 IF fs[PathOf(c)] = NoFile THEN after_exception(c, "file not found")
                 ELSE IF raises THEN after_exception(c, "raised")
                 ELSE [calls[c] EXCEPT !.pc = "finally", !.extracted = fs[PathOf(c)].data,
                                       !.outcome = IF fs[PathOf(c)].data = "empty"
                                                   THEN "returned []" ELSE "returned chunks"]]
  /\ UNCHANGED fs

\* os.remove(path): the file is gone, and open handles on it no longer reach the path
remove(path) ==
  /\ fs' = [fs EXCEPT ![path] = NoFile]

\* the finally block. process_uploaded_file: os.remove(temp_path).
\* process_document_content: if os.path.exists(temp_filepath): then os.remove in a
\* second step.
finally_remove(c) ==
  /\ calls[c].pc \in {"finally", "removing"}
  /\ IF calls[c].function = "process_document_content" /\ calls[c].pc = "finally"
     THEN /\ calls' = [calls EXCEPT ![c].pc =
                         IF fs[PathOf(c)] = NoFile THEN "done" ELSE "removing"]
          /\ UNCHANGED fs
     ELSE IF fs[PathOf(c)] = NoFile
     THEN /\ calls' = [calls EXCEPT ![c].pc = "done", ![c].outcome = "file not found"]
          /\ UNCHANGED fs
     ELSE /\ remove(PathOf(c))
          /\ calls' = [d \in Calls |->
                         IF d = c THEN [calls[c] EXCEPT !.pc = "done"]
                         ELSE IF calls[d].pc \in {"opened", "written"} /\ PathOf(d) = PathOf(c)
                         THEN [calls[d] EXCEPT !.handle = FALSE]
                         ELSE calls[d]]

TempIdle == fs = [p \in Paths |-> NoFile] /\ calls = [c \in Calls |-> NoCall]

----------------------------------------------------------------------------
(* src/document_processor.py: the chunking of process_file.  A text is a sequence of
   symbols: "a" a letter, "." a sentence terminator, " " a whitespace character and
   "W" a run of BlockLength letters. *)

MaxTextLength == 5   \* symbols of an extracted text
BlockLength == 250   \* letters the symbol "W" stands for

\* if len(current_chunk) < 500
ChunkThreshold == 500

Alphabet == {"a", ".", " ", "W"}
Terminators == {"."}
Whitespace == {" "}

\* len(s)
RECURSIVE TextLength(_)
TextLength(s) ==
  IF s = <<>> THEN 0
  ELSE (IF Head(s) = "W" THEN BlockLength ELSE 1) + TextLength(Tail(s))

\* s.strip()
RECURSIVE strip(_)
strip(s) ==
  IF s = <<>> THEN s
  ELSE IF Head(s) \in Whitespace THEN strip(Tail(s))
  ELSE IF s[Len(s)] \in Whitespace THEN strip(SubSeq(s, 1, Len(s) - 1))
  ELSE s

\* the last position of the whitespace run that starts at i
RunEnd(s, i) ==
  CHOOSE j \in i..Len(s) :
    /\ \A k \in i..j : s[k] \in Whitespace
    /\ j = Len(s) \/ s[j + 1] \notin Whitespace

\* re.split(r'(?<=[.!?])\s+', s), scanning from i with the current piece starting at start
RECURSIVE SplitFrom(_, _, _)
SplitFrom(s, start, i) ==
  IF i > Len(s) THEN << SubSeq(s, start, Len(s)) >>
  ELSE IF i > 1 /\ s[i - 1] \in Terminators /\ s[i] \in Whitespace
  THEN << SubSeq(s, start, i - 1) >> \o SplitFrom(s, RunEnd(s, i) + 1, RunEnd(s, i) + 1)
  ELSE SplitFrom(s, start, i + 1)

re_split(s) == SplitFrom(s, 1, 1)

\* a loop that closes the current chunk and forgets the sentence that did not fit
RECURSIVE Accumulate_drop(_, _, _, _)
Accumulate_drop(chunks, n, current_chunk, processed) ==
  IF n > Len(chunks)
  THEN IF current_chunk # <<>> THEN Append(processed, strip(current_chunk)) ELSE processed
  ELSE IF TextLength(current_chunk) < ChunkThreshold
  THEN Accumulate_drop(chunks, n + 1, current_chunk \o <<" ">> \o chunks[n], processed)
  ELSE Accumulate_drop(chunks, n + 1, <<>>, Append(processed, strip(current_chunk)))

\* the loop over the sentences: add to the current chunk while it is shorter than the
\* threshold, else close it and start the next with the sentence; then the last chunk
RECURSIVE Accumulate(_, _, _, _)
Accumulate(chunks, n, current_chunk, processed) ==
  IF n > Len(chunks)
  THEN IF current_chunk # <<>> THEN Append(processed, strip(current_chunk)) ELSE processed
  ELSE IF TextLength(current_chunk) < ChunkThreshold
  THEN Accumulate(chunks, n + 1, current_chunk \o <<" ">> \o chunks[n], processed)
  ELSE Accumulate(chunks, n + 1, chunks[n], Append(processed, strip(current_chunk)))

\* a process_file without the early return for no text
chunk_text_unguarded(s) == Accumulate(re_split(s), 1, <<>>, <<>>)

\* process_file from the extracted text on: [] for no text, else the chunks
chunk_text(s) ==
  IF s = <<>> THEN <<>> ELSE Accumulate(re_split(s), 1, <<>>, <<>>)

\* process_file's chunking step
process_file ==
  /\ chunker_pc = "extracted"
  /\ processed_chunks' = chunk_text(text)
  /\ chunker_pc' = "done"
  /\ UNCHANGED <<text, document_content>>

ChunkerIdle ==
  /\ text = <<>> /\ processed_chunks = <<>> /\ chunker_pc = "done"
  /\ document_content = NoContent

----------------------------------------------------------------------------
(* Initial values of the index components *)

NoSearch == [client_id |-> None, k |-> 0, query |-> None]
NoIngest == [path |-> "none", client_id |-> None, filename |-> None,
             metadata |-> EmptyDict, first |-> 1, last |-> 0]

SearchIdle == db = <<>> /\ results = <<>> /\ search_req = NoSearch
RagIdle == /\ chroma_collection = <<>> /\ chroma_vector_db = None
           /\ llm_model = None /\ rag = NoRag
IngestIdle == last_ingest = NoIngest

NoRoute == [pc |-> "idle", session_id |-> None, question |-> None, before |-> 0,
            chat_history |-> <<>>, answer |-> None, sources |-> <<>>, status |-> 0]

RouteIdle == route = NoRoute

\* sequences over S of length 1..n
RECURSIVE SeqsUpTo(_, _)
SeqsUpTo(S, n) ==
  IF n = 0 THEN {}
  ELSE LET shorter == SeqsUpTo(S, n - 1)
       IN { <<x>> : x \in S } \cup { <<x>> \o rest : x \in S, rest \in shorter }


----------------------------------------------------------------------------
(* The two ingestion paths: a processor's chunks handed to its index *)

\* process_uploaded_file's documents (process_file) handed to
\* VectorDBManager.add_documents by the tenant `client_id`
ingest_uploaded_file(client_id, chunks, filename, metadata) ==
  /\ add_documents(process_file_documents(chunks, metadata), client_id)
  /\ last_ingest' = [path |-> "db", client_id |-> client_id, filename |-> filename,
                     metadata |-> metadata, first |-> Len(db) + 1, last |-> Len(db')]

\* process_document_content's chunks handed to add_documents_to_chroma; `caller` is
\* the tenant uploading (the route takes no client id)
upload_document(caller, pages, filename, metadata, now, raises) ==
  /\ add_documents_to_chroma(process_document_content(pages, filename, metadata, now),
                             metadata, chroma_vector_db, raises)
  /\ last_ingest' = [path |-> "chroma", client_id |-> caller, filename |-> filename,
                     metadata |-> metadata, first |-> Len(chroma_collection) + 1,
                     last |-> Len(chroma_collection')]

----------------------------------------------------------------------------
(* Specification of the tenant-scoped search of VectorDBManager *)

TenantMetadata == {EmptyDict} \cup {Dict1("client_id", t) : t \in Tenants}

IndexChunks ==
  /\ \E client_id \in Tenants, chunks \in {<<>>} \cup SeqsUpTo(Contents, 2),
        metadata \in TenantMetadata :
       /\ Len(db) + Len(chunks) <= MaxIndexed
       /\ ingest_uploaded_file(client_id, chunks, "a.txt", metadata)
  /\ UNCHANGED <<route, rag_vars, store_vars, temp_vars, chunk_vars>>

Search ==
  /\ \E query \in Queries, client_id \in Tenants, k \in 1..MaxK :
       search_documents(query, client_id, k)
  /\ UNCHANGED <<route, rag_vars, last_ingest, store_vars, temp_vars, chunk_vars>>

InitSearch == SearchIdle /\ RagIdle /\ IngestIdle /\ RouteIdle /\ StoreIdle /\ TempIdle /\ ChunkerIdle
NextSearch == IndexChunks \/ Search
SpecSearch == InitSearch /\ [][NextSearch]_vars


\* the chunks of db that carry client_id = tenant
ChunksOf(tenant) ==
  {i \in 1..Len(db) : /\ "client_id" \in DOMAIN db[i].metadata
                       /\ db[i].metadata["client_id"] = tenant}

\* C1: search_documents(query, client_id=A, k) returns at most k chunks, every one
\* of them an indexed chunk whose client_id metadata is A, and returns the empty
\* list when no chunk of tenant A is indexed.
C1_TenantScopedSearch ==
  search_req # NoSearch =>
    /\ Len(results) <= search_req.k
    /\ \A i \in 1..Len(results) :
         /\ "client_id" \in DOMAIN results[i].metadata
         /\ results[i].metadata["client_id"] = search_req.client_id
         /\ \E j \in 1..Len(db) : db[j] = results[i]
    /\ ChunksOf(search_req.client_id) = {} => results = <<>>

\* a search cut to k results over an index that also holds another tenant's chunks
C1_Witness ==
  /\ search_req # NoSearch
  /\ Len(results) = search_req.k
  /\ Cardinality(ChunksOf(search_req.client_id)) > search_req.k
  /\ \E t \in Tenants \ {search_req.client_id} : ChunksOf(t) # {}


----------------------------------------------------------------------------
(* Specification of retrieval-augmented answering over chroma_manager's collection *)

Upload ==
  /\ \E caller \in Tenants, content \in Contents, metadata \in TenantMetadata,
        now \in Times, raises \in BOOLEAN :
       /\ Len(chroma_collection) < MaxIndexed
       /\ upload_document(caller, <<content>>, "a.txt", metadata, now, raises)
  /\ UNCHANGED <<route, search_vars, store_vars, temp_vars, chunk_vars>>

Ask ==
  /\ \E caller \in Tenants, question \in Queries, retrieval_raises \in BOOLEAN,
        llm \in LLMOutcomes :
       get_rag_response(caller, question, get_retriever(chroma_vector_db),
                        retrieval_raises, llm)
  /\ UNCHANGED <<route, search_vars, last_ingest, store_vars, temp_vars, chunk_vars>>

InitRag ==
  /\ SearchIdle /\ IngestIdle /\ RouteIdle /\ StoreIdle /\ TempIdle /\ ChunkerIdle
  /\ chroma_collection = <<>> /\ rag = NoRag
  /\ chroma_vector_db \in {None, "chroma client"}
  /\ llm_model \in {None, "gemini-1.5-flash"}
NextRag == Upload \/ Ask
SpecRag == InitRag /\ [][NextRag]_vars

\* C2: every retrieval the system issues is restricted to the caller's chunks: the
\* documents get_rag_response retrieves for a caller, from which the prompt and the
\* sources are built, all carry the caller's client_id.
C2_RetrievalScopedToCaller ==
  rag.outcome = "ok" =>
    \A i \in 1..Len(rag.relevant_docs) :
      "client_id" \in DOMAIN rag.relevant_docs[i].metadata =>
        rag.relevant_docs[i].metadata["client_id"] = rag.caller



----------------------------------------------------------------------------
(* Specification of answering: documents added to the collection as they are, with or
   without original_filename, and questions answered over them *)

AddDocumentsToChroma ==
  /\ \E content \in Contents, raises \in BOOLEAN,
        metadata \in {EmptyDict, Dict1("original_filename", "a.txt")} :
       /\ Len(chroma_collection) < MaxRetrieved
       /\ add_documents_to_chroma(process_file_documents(<<content>>, metadata), metadata,
                                  chroma_vector_db, raises)
  /\ UNCHANGED <<route, search_vars, last_ingest, store_vars, temp_vars, chunk_vars>>

AnswerQuestion ==
  /\ \E question \in Queries, retrieval_raises \in BOOLEAN, llm \in LLMOutcomes :
       get_rag_response("tenant-x", question, get_retriever(chroma_vector_db),
                        retrieval_raises, llm)
  /\ UNCHANGED <<route, search_vars, last_ingest, store_vars, temp_vars, chunk_vars>>

NextAnswer == AddDocumentsToChroma \/ AnswerQuestion
SpecAnswer == InitRag /\ [][NextAnswer]_vars

\* the fixed replies of get_rag_response
FixedReplies == {MsgUnavailable, MsgBlocked, MsgError}

----------------------------------------------------------------------------
(* Specification of the two ingestion paths *)

IngestUploadedFile ==
  /\ \E client_id \in Tenants, chunks \in {<<"c1">>, <<"c1", "c2">>},
        filename \in Filenames, metadata \in CallerMetadata :
       /\ Len(db) + Len(chroma_collection) + Len(chunks) <= MaxIngested
       /\ ingest_uploaded_file(client_id, chunks, filename, metadata)
  /\ UNCHANGED <<route, rag_vars, store_vars, temp_vars, chunk_vars>>

UploadDocument ==
  /\ \E caller \in Tenants, pages \in {<<"c1">>, <<"c1", "c2">>}, filename \in Filenames,
        metadata \in CallerMetadata, now \in Times, raises \in BOOLEAN :
       /\ Len(db) + Len(chroma_collection) + Len(pages) <= MaxIngested
       /\ upload_document(caller, pages, filename, metadata, now, raises)
  /\ UNCHANGED <<route, search_vars, store_vars, temp_vars, chunk_vars>>

InitIngest ==
  /\ SearchIdle /\ IngestIdle /\ RouteIdle /\ StoreIdle /\ TempIdle /\ ChunkerIdle
  /\ chroma_collection = <<>> /\ rag = NoRag /\ llm_model = None
  /\ chroma_vector_db \in {None, "chroma client"}
NextIngest == IngestUploadedFile \/ UploadDocument
SpecIngest == InitIngest /\ [][NextIngest]_vars

\* the chunks the last ingestion call handed to its index
LastIngested ==
  LET index == IF last_ingest.path = "db" THEN db ELSE chroma_collection
  IN {index[i] : i \in last_ingest.first..last_ingest.last}

PipelineKeys == {"client_id", "original_filename", "timestamp"}

\* C3: every chunk an ingestion call hands to the vector index carries client_id
\* equal to the ingesting caller's client_id and original_filename equal to the
\* uploaded filename, whatever the caller's metadata holds, and keeps every other
\* caller key.
C3_PipelineKeysWin ==
  \A chunk \in LastIngested :
    /\ "client_id" \in DOMAIN chunk.metadata
    /\ chunk.metadata["client_id"] = last_ingest.client_id
    /\ "original_filename" \in DOMAIN chunk.metadata
    /\ chunk.metadata["original_filename"] = last_ingest.filename
    /\ \A key \in DOMAIN last_ingest.metadata \ PipelineKeys :
         /\ key \in DOMAIN chunk.metadata
         /\ chunk.metadata[key] = last_ingest.metadata[key]


----------------------------------------------------------------------------
(* Specification of the conversation store, one call at a time *)

others_idle == UNCHANGED <<route, search_vars, rag_vars, last_ingest, temp_vars, chunk_vars>>

SaveMessage ==
  /\ \E session_id \in Sessions, role \in Roles, content \in MessageTexts,
        raises \in BOOLEAN :
       /\ Len(conversations) < MaxMessages
       /\ save_message(session_id, role, content, raises)
  /\ others_idle

LoadConversation ==
  /\ \E session_id \in Sessions, raises \in BOOLEAN : load_conversation(session_id, raises)
  /\ others_idle

DeleteConversation ==
  /\ \E session_id \in Sessions, raises \in BOOLEAN : delete_conversation(session_id, raises)
  /\ others_idle

InitStore ==
  /\ SearchIdle /\ RagIdle /\ IngestIdle /\ RouteIdle /\ TempIdle /\ ChunkerIdle
  /\ mongo_db \in {None, "legal_rag_db"}
  /\ conversations = <<>> /\ loaded = NoLoad /\ sessions_summary = NoSummary
  /\ high_water = [s \in Sessions |-> -1]
  /\ appended = [s \in Sessions |-> <<>>]
  /\ pending = [r \in Requests |-> NoSave]
NextStore == SaveMessage \/ LoadConversation \/ DeleteConversation
SpecStore == InitStore /\ [][NextStore]_vars

\* C4: the index save_message assigns in a session is greater than every index
\* assigned in that session before, also those of messages deleted since.
C4_IndexNeverReused ==
  [][\A s \in Sessions :
       (/\ Len(conversations') = Len(conversations) + 1
        /\ conversations'[Len(conversations')].session_id = s)
       => conversations'[Len(conversations')].message_index > high_water[s]]_vars

\* the stored message_index values of a session, in load order
StoredIndices(messages) == [j \in 1..Len(messages) |-> messages[j].message_index]

\* C5: for a session that started empty, load_conversation returns exactly the
\* messages appended since, in append order, with role and content unchanged, and
\* their sequence indices are 0..n; after delete_conversation it returns [].
C5_LoadReturnsAppended ==
  \A s \in Sessions : \A messages \in find_sorted(s) :
    /\ formatted_history(messages) = appended[s]
    /\ StoredIndices(messages) = [j \in 1..Len(appended[s]) |-> j - 1]

\* two different messages were appended to a session and loaded back
C5_Witness ==
  /\ loaded.session_id \in Sessions
  /\ ~loaded.failed
  /\ Len(loaded.history) = 2
  /\ loaded.history[1] # loaded.history[2]
  /\ loaded.history = appended[loaded.session_id]


----------------------------------------------------------------------------
(* Specification of the conversation store with the session summaries, one call at a
   time *)

GetAllSessionsSummary ==
  /\ \E raises \in BOOLEAN : get_all_sessions_summary_mongo(raises)
  /\ others_idle

NextSessions ==
  SaveMessage \/ LoadConversation \/ DeleteConversation \/ GetAllSessionsSummary
SpecSessions == InitStore /\ [][NextSessions]_vars

\* the positions of the user messages of a session
UserMessages(session_id) ==
  {i \in SessionMessages(session_id) : conversations[i].role = "user"}

\* the title a session should get: from its user message with the lowest
\* message_index, or the placeholder when it has no user message
expected_title(session_id) ==
  IF UserMessages(session_id) = {}
  THEN [text |-> NewChat, chars |-> 0, ellipsis |-> FALSE]
  ELSE title_of(conversations[CHOOSE i \in UserMessages(session_id) :
                                \A j \in UserMessages(session_id) :
                                  conversations[i].message_index
                                    <= conversations[j].message_index].parts[1])

\* C13: get_all_sessions_summary_mongo returns exactly one entry for every session
\* with a stored message, titled with the session's first user message (lowest
\* message_index with role user) cut to 50 characters with an ellipsis only if it was
\* longer, or with the placeholder when the session has no user message.
C13_SummaryTitles ==
  [][(/\ \E raises \in BOOLEAN : get_all_sessions_summary_mongo(raises)
      /\ ~sessions_summary'.failed)
     => LET result == sessions_summary'.result
        IN /\ \A s \in Sessions :
                Cardinality({n \in 1..Len(result) : result[n].id = s})
                  = IF SessionMessages(s) # {} THEN 1 ELSE 0
           /\ \A n \in 1..Len(result) :
                result[n].title = expected_title(result[n].id)]_vars

----------------------------------------------------------------------------
(* Specification of the store's four operations over the questions users send, one
   call at a time *)

SaveUserMessage ==
  /\ \E session_id \in Sessions, raises \in BOOLEAN :
       /\ Len(conversations) < MaxMessages
       /\ save_message(session_id, "user", "m0", raises)
  /\ others_idle

NextFrame ==
  SaveUserMessage \/ LoadConversation \/ DeleteConversation \/ GetAllSessionsSummary
SpecFrame == InitStore /\ [][NextFrame]_vars

\* the stored messages of a session in a collection, in the collection's order
MessagesOf(collection, session_id) ==
  SelectSeq(collection, LAMBDA message : message.session_id = session_id)

\* C18: save_message and delete_conversation on a session leave the stored messages
\* of every other session unchanged, save_message changes no message already stored
\* in its session, and load_conversation and get_all_sessions_summary_mongo change no
\* stored message.
C18_OtherSessionsUntouched ==
  [][
     /\ \A s \in Sessions :
          \/ \A t \in Sessions \ {s} :
               MessagesOf(conversations', t) = MessagesOf(conversations, t)
          \/ ~(\/ \E role \in Roles, content \in MessageTexts, raises \in BOOLEAN :
                    save_message(s, role, content, raises)
               \/ \E raises \in BOOLEAN : delete_conversation(s, raises))
     /\ \A s \in Sessions :
          \/ LET before == MessagesOf(conversations, s)
                 after == MessagesOf(conversations', s)
             IN /\ Len(after) >= Len(before)
                /\ SubSeq(after, 1, Len(before)) = before
          \/ ~(\E role \in Roles, content \in MessageTexts, raises \in BOOLEAN :
                 save_message(s, role, content, raises))
     /\ \/ conversations' = conversations
        \/ ~(\/ \E s \in Sessions, raises \in BOOLEAN : load_conversation(s, raises)
             \/ \E raises \in BOOLEAN : get_all_sessions_summary_mongo(raises))
    ]_vars

\* a session was written and deleted, and the other session still has its message
C18_Witness ==
  \E s, t \in Sessions :
    /\ s # t
    /\ high_water[s] >= 0 /\ SessionMessages(s) = {}
    /\ SessionMessages(t) # {}
    /\ sessions_summary.called /\ ~sessions_summary.failed
    /\ Len(sessions_summary.result) = 1


----------------------------------------------------------------------------
(* Specification of the conversation store under concurrent requests: save_message
   is two store operations, find_one and insert_one, and other requests run between *)

\* save_message up to the find_one: the request has read the index it will assign
save_find_one(r, session_id, role, content, raises) ==
  /\ pending[r].pc = "idle"
  /\ mongo_db # None
  /\ pending' = [pending EXCEPT ![r] =
                   IF raises THEN NoSave
                   ELSE [pc |-> "insert", session_id |-> session_id, role |-> role,
                         content |-> content,
                         message_index |-> next_message_index(session_id)]]
  /\ UNCHANGED <<mongo_db, conversations, loaded, sessions_summary, high_water, appended>>

\* save_message from the insert_one on
save_insert_one(r, raises) ==
  /\ pending[r].pc = "insert"
  /\ IF raises
     THEN UNCHANGED <<conversations, high_water, appended>>
     ELSE insert_one(new_message(pending[r].session_id, pending[r].role,
                                 pending[r].content, pending[r].message_index))
  /\ pending' = [pending EXCEPT ![r] = NoSave]
  /\ UNCHANGED <<mongo_db, loaded, sessions_summary>>

SaveFindOne ==
  /\ \E r \in Requests, session_id \in Sessions, role \in Roles, content \in MessageTexts,
        raises \in BOOLEAN :
       /\ Len(conversations) + Cardinality({q \in Requests : pending[q].pc = "insert"})
            < MaxMessages
       /\ save_find_one(r, session_id, role, content, raises)
  /\ others_idle

SaveInsertOne ==
  /\ \E r \in Requests, raises \in BOOLEAN : save_insert_one(r, raises)
  /\ others_idle

InitStoreConcurrent ==
  /\ SearchIdle /\ RagIdle /\ IngestIdle /\ RouteIdle /\ TempIdle /\ ChunkerIdle
  /\ mongo_db = "legal_rag_db"
  /\ conversations = <<>> /\ loaded = NoLoad /\ sessions_summary = NoSummary
  /\ high_water = [s \in Sessions |-> -1]
  /\ appended = [s \in Sessions |-> <<>>]
  /\ pending = [r \in Requests |-> NoSave]
NextStoreConcurrent == SaveFindOne \/ SaveInsertOne \/ LoadConversation
SpecStoreConcurrent == InitStoreConcurrent /\ [][NextStoreConcurrent]_vars

\* C6: under concurrent save_message calls no two stored messages of a session have
\* the same sequence index.
C6_UniqueIndexPerSession ==
  \A i, j \in 1..Len(conversations) :
    (i # j /\ conversations[i].session_id = conversations[j].session_id)
      => conversations[i].message_index # conversations[j].message_index


----------------------------------------------------------------------------
(* Specification of the temporary files of concurrent ingestion calls *)

temp_frame == UNCHANGED <<route, search_vars, rag_vars, last_ingest, store_vars, chunk_vars>>

OpenTempFile ==
  /\ \E c \in Calls, function \in Functions, filename \in Filenames, raises \in BOOLEAN :
       open_temp_file(c, function, filename, raises)
  /\ temp_frame

WriteTempFile ==
  /\ \E c \in Calls, raises \in BOOLEAN : write_temp_file(c, raises)
  /\ temp_frame

ExtractText ==
  /\ \E c \in Calls, raises \in BOOLEAN : extract_text(c, raises)
  /\ temp_frame

FinallyRemove ==
  /\ \E c \in Calls : finally_remove(c)
  /\ temp_frame

InitTemp == SearchIdle /\ RagIdle /\ IngestIdle /\ RouteIdle /\ StoreIdle /\ TempIdle /\ ChunkerIdle
NextTemp == OpenTempFile \/ WriteTempFile \/ ExtractText \/ FinallyRemove
SpecTemp == InitTemp /\ [][NextTemp]_vars

\* C7: when an ingestion call has returned or raised, no temporary file created by
\* that call remains on disk.
C7_TempFileRemoved ==
  \A c \in Calls :
    calls[c].pc = "done" =>
      ~(fs[PathOf(c)] # NoFile /\ fs[PathOf(c)].creator = c)

\* C8: two concurrent ingestion calls use distinct temporary paths, each extracts
\* text only from its own bytes, and neither loses its file to the other.
C8_TempFilePerCall ==
  /\ \A c, d \in Calls :
       (c # d /\ calls[c].pc \in {"opened", "written", "finally", "removing"}
              /\ calls[d].pc \in {"opened", "written", "finally", "removing"}
              /\ calls[c].handle /\ calls[d].handle)
         => PathOf(c) # PathOf(d)
  /\ \A c \in Calls : calls[c].extracted # None => calls[c].extracted = bytes_of(c)
  /\ \A c \in Calls : calls[c].outcome # "file not found"


----------------------------------------------------------------------------
(* Specification of the chunker: any extracted text, then process_file's chunking *)

\* sequences over S of length 0..n
Texts(S, n) == {<<>>} \cup SeqsUpTo(S, n)

ProcessFile ==
  /\ process_file
  /\ UNCHANGED <<route, search_vars, rag_vars, last_ingest, store_vars, temp_vars>>

InitChunker ==
  /\ SearchIdle /\ RagIdle /\ IngestIdle /\ RouteIdle /\ StoreIdle /\ TempIdle
  /\ text \in Texts(Alphabet, MaxTextLength)
  /\ processed_chunks = <<>>
  /\ chunker_pc = "extracted"
  /\ document_content = NoContent
NextChunker == ProcessFile
SpecChunker == InitChunker /\ [][NextChunker]_vars

\* C9: every emitted chunk is at most the size limit long, except a chunk that is one
\* single sentence longer than the limit.
C9_ChunkWithinLimit ==
  \A i \in 1..Len(processed_chunks) :
    \/ TextLength(processed_chunks[i]) <= ChunkThreshold
    \/ Len(re_split(processed_chunks[i])) = 1

\* C10: every chunk process_file returns has non-empty content.
C10_ChunkNonEmpty ==
  \A i \in 1..Len(processed_chunks) : processed_chunks[i] # <<>>

\* the sentences of a list of split pieces: each piece without its surrounding
\* whitespace, blank pieces left out
Stripped(pieces) ==
  SelectSeq([i \in 1..Len(pieces) |-> strip(pieces[i])], LAMBDA piece : piece # <<>>)

\* the sentences read off the chunks in output order
RECURSIVE SentencesOf(_)
SentencesOf(chunks) ==
  IF chunks = <<>> THEN <<>>
  ELSE Stripped(re_split(Head(chunks))) \o SentencesOf(Tail(chunks))

\* C11: the chunker loses and reorders nothing: the sentences read off the emitted
\* chunks in output order are exactly the sentences of the text in document order,
\* each one once.
C11_NoSentenceLost ==
  chunker_pc = "done" => SentencesOf(processed_chunks) = Stripped(re_split(text))

\* a text of two sentences that was cut into two chunks
C11_Witness ==
  /\ chunker_pc = "done"
  /\ Len(processed_chunks) = 2
  /\ Len(Stripped(re_split(text))) = 2
  /\ processed_chunks[1] # processed_chunks[2]

----------------------------------------------------------------------------
(* Specification of what the ingestion function and the history load return: calls
   that find nothing and calls that fail *)

\* the pages a loader extracts: a file without text is one page with no content
ExtractedPages == {<<"">>, <<"c1">>, <<"", "c1">>}

ProcessDocumentContent ==
  /\ \E pages \in ExtractedPages, filename \in Filenames, now \in Times, raises \in BOOLEAN :
       process_document_content_call(pages, filename, EmptyDict, now, raises)
  /\ UNCHANGED <<route, search_vars, rag_vars, last_ingest, store_vars, temp_vars,
                 text, processed_chunks, chunker_pc>>

NextOutcomes == ProcessDocumentContent \/ SaveMessage \/ LoadConversation
SpecOutcomes == InitStore /\ [][NextOutcomes]_vars

\* C14: a failure is distinguishable from an empty result: what
\* process_document_content returns when the extraction fails differs from the empty
\* list it returns for a file without text, and what load_conversation returns when the
\* store is unavailable or the query fails differs from the empty list it returns for
\* a session without history.
C14_EmptyDistinctFromFailure ==
  /\ (document_content.called /\ document_content.failed)
       => \/ document_content.raised
          \/ document_content.chunks # process_document_content(<<"">>, "a.txt", EmptyDict, "t1")
  /\ (loaded.session_id # None /\ loaded.failed)
       => loaded.history # formatted_history(<<>>)

----------------------------------------------------------------------------
(* Specification of the two ingestion functions on any extracted text, the empty one
   included *)

NextEmpty == ProcessFile \/ ProcessDocumentContent
SpecEmpty == InitChunker /\ [][NextEmpty]_vars

\* the pages have no text at all
NoText(pages) == \A i \in 1..Len(pages) : pages[i] = ""

----------------------------------------------------------------------------
(* src/main.py: ask_legal_question_route, one request at a time, step by step *)

\* the question of a request: "" stands for an empty or missing one
Questions == {"", "m0"}

route_frame == UNCHANGED <<search_vars, last_ingest, temp_vars, chunk_vars>>

\* data.get('question'); if not question: return 400; else
\* save_message(session_id, "user", question)
ask_save_question(session_id, question, raises) ==
  /\ route.pc \in {"idle", "done"}
  /\ IF question = ""
     THEN /\ route' = [NoRoute EXCEPT !.pc = "done", !.session_id = session_id,
                                      !.question = question,
                                      !.before = Len(conversations), !.status = 400]
          /\ UNCHANGED store_vars
     ELSE /\ route' = [NoRoute EXCEPT !.pc = "saved", !.session_id = session_id,
                                      !.question = question,
                                      !.before = Len(conversations)]
          /\ save_message(session_id, "user", question, raises)
  /\ UNCHANGED rag_vars

\* chat_history = load_conversation(session_id)
ask_load_conversation(raises) ==
  /\ route.pc = "saved"
  /\ load_conversation(route.session_id, raises)
  /\ route' = [route EXCEPT !.pc = "loaded", !.chat_history = loaded'.history]
  /\ UNCHANGED rag_vars

\* retriever = get_retriever(chroma_vector_db);
\* answer, sources = get_rag_response(question, chat_history, retriever)
ask_get_rag_response(caller, retrieval_raises, llm) ==
  /\ route.pc = "loaded"
  /\ get_rag_response(caller, route.question, get_retriever(chroma_vector_db),
                      retrieval_raises, llm)
  /\ route' = [route EXCEPT !.pc = "answered", !.answer = rag'.answer,
                            !.sources = rag'.sources]
  /\ UNCHANGED store_vars

\* save_message(session_id, "ai", answer); return jsonify({...}) with status 200
ask_save_answer(raises) ==
  /\ route.pc = "answered"
  /\ save_message(route.session_id, "ai", route.answer, raises)
  /\ route' = [route EXCEPT !.pc = "done", !.status = 200]
  /\ UNCHANGED rag_vars

AskSaveQuestion ==
  /\ \E session_id \in Sessions, question \in Questions, raises \in BOOLEAN :
       /\ Len(conversations) < MaxMessages
       /\ ask_save_question(session_id, question, raises)
  /\ route_frame

AskLoadConversation ==
  /\ \E raises \in BOOLEAN : ask_load_conversation(raises)
  /\ route_frame

AskGetRagResponse ==
  /\ \E retrieval_raises \in BOOLEAN, llm \in LLMOutcomes :
       ask_get_rag_response("tenant-x", retrieval_raises, llm)
  /\ route_frame

AskSaveAnswer ==
  /\ \E raises \in BOOLEAN : ask_save_answer(raises)
  /\ route_frame

InitAsk ==
  /\ SearchIdle /\ IngestIdle /\ RouteIdle /\ TempIdle /\ ChunkerIdle
  /\ chroma_collection = <<>> /\ rag = NoRag
  /\ chroma_vector_db \in {None, "chroma client"}
  /\ llm_model \in {None, "gemini-1.5-flash"}
  /\ mongo_db \in {None, "legal_rag_db"}
  /\ conversations = <<>> /\ loaded = NoLoad /\ sessions_summary = NoSummary
  /\ high_water = [s \in Sessions |-> -1]
  /\ appended = [s \in Sessions |-> <<>>]
  /\ pending = [r \in Requests |-> NoSave]
NextAsk == AskSaveQuestion \/ AskLoadConversation \/ AskGetRagResponse \/ AskSaveAnswer
SpecAsk == InitAsk /\ [][NextAsk]_vars

\* C17: a request with a non-empty question stores the user's question before the
\* history is loaded and the answer generated, and the AI answer afterwards: when it
\* has returned, the collection holds exactly two more messages, the session's
\* question and then its answer, with consecutive indices. A request with an empty or
\* missing question returns an error and stores nothing.
C17_RequestPersistsBoth ==
  /\ (route.pc \in {"saved", "loaded", "answered"}) =>
       /\ Len(conversations) = route.before + 1
       /\ conversations[route.before + 1].session_id = route.session_id
       /\ conversations[route.before + 1].role = "user"
       /\ conversations[route.before + 1].parts = <<route.question>>
  /\ (route.pc = "done" /\ route.question # "") =>
       /\ Len(conversations) = route.before + 2
       /\ conversations[route.before + 1].session_id = route.session_id
       /\ conversations[route.before + 1].role = "user"
       /\ conversations[route.before + 1].parts = <<route.question>>
       /\ conversations[route.before + 2].session_id = route.session_id
       /\ conversations[route.before + 2].role = "ai"
       /\ conversations[route.before + 2].parts = <<route.answer>>
       /\ conversations[route.before + 2].message_index
            = conversations[route.before + 1].message_index + 1
  /\ (route.pc = "done" /\ route.question = "") =>
       /\ route.status = 400
       /\ Len(conversations) = route.before

====
